---- MODULE Spec2Model ----
(***************************************************************************)
(* A model of the legacy GridFS bucket (pail's gridfsLegacyBucket): the    *)
(* key codec, the backend's file collection, streams and their cloned      *)
(* sessions, the listing iterator, removal, and the Push/Pull sync engine. *)
(*                                                                         *)
(* Strings are sequences of one-character strings, so that slicing,        *)
(* prefix tests and joins are computed as the code computes them.          *)
(***************************************************************************)
EXTENDS Integers, Sequences, FiniteSets, TLC

VARIABLES
    opts,      \* gridfsLegacyBucket.opts: Prefix, DryRun, DeleteOn* flags
    files,     \* the GridFS files collection, in insertion order
    done,      \* the contexts that have ended (ctx.Err() # nil)
    iter,      \* the legacyGridFSIterator the caller holds, or NoIter
    streams,   \* one entry per openFile call and per dry-run writer
    local,     \* the local tree of a sync: relative path -> contents
    ret,       \* what the last call returned, with what it did on the way
    codec      \* the key codec's input, stage and value (SpecCodec)

vars == <<opts, files, done, iter, streams, local, ret, codec>>

----------------------------------------------------------------------------
(* Bounds *)

\* longest string drawn as a bucket prefix or a logical key in SpecCodec
MaxLen == 3

\* most documents in the files collection when SpecIter starts
MaxDocs == 2

\* most calls of Next on one iterator
MaxNextCalls == 4

\* most documents in the files collection in Spec
MaxFiles == 2

\* most streams opened in Spec (openFile calls and dry-run writers)
MaxStreams == 1

\* most keys handed to one RemoveMany
MaxKeys == 2

\* most Push and Pull calls of one behaviour
MaxSyncs == 2

----------------------------------------------------------------------------
(* Strings *)

Sep == "/"

Alphabet == {"a", "b", Sep}

Nil == "nil"
NoIter == [none |-> TRUE]
NoItem == [none |-> TRUE]
NoCodec == [stage |-> "off"]
NoRet == [op |-> "none"]

\* the caller's contexts
Ctxs == {"c1", "c2"}

\* file contents, and the checksum the backend and md5sum compute of them
Data == {"X", "Y"}

MD5(data) == <<"md5", data>>

Min(a, b) == IF a < b THEN a ELSE b

Strings(n) == UNION {[1..k -> Alphabet] : k \in 0..n}

\* s[from+1 ..] : Go's s[from:]
Drop(s, from) == SubSeq(s, from + 1, Len(s))

HasPrefix(s, p) == Len(s) >= Len(p) /\ SubSeq(s, 1, Len(p)) = p

\* a run of separators becomes one separator
RECURSIVE Collapse(_)
Collapse(s) ==
    IF Len(s) < 2 THEN s
    ELSE IF s[1] = Sep /\ s[2] = Sep THEN Collapse(Tail(s))
    ELSE <<s[1]>> \o Collapse(Tail(s))

\* joins the non-empty elements with one separator and collapses duplicate
\* separators
consistentJoin(prefix, key) ==
    Collapse(IF prefix = <<>> THEN key
             ELSE IF key = <<>> THEN prefix
             ELSE prefix \o <<Sep>> \o key)

----------------------------------------------------------------------------
(* Key codec *)

normalizeKey(key) ==
    IF key = <<>> THEN opts.Prefix ELSE consistentJoin(opts.Prefix, key)

\* the mutant strips the prefix but leaves the separator
denormalizeKeyKeepsSep(key) ==
    IF opts.Prefix # <<>> /\ Len(key) > Len(opts.Prefix) + 1
    THEN Drop(key, Len(opts.Prefix))
    ELSE key

denormalizeKey(key) ==
    IF opts.Prefix # <<>> /\ Len(key) > Len(opts.Prefix) + 1
    THEN Drop(key, Len(opts.Prefix) + 1)
    ELSE key

----------------------------------------------------------------------------
(* SpecCodec: the codec applied to every prefix and key within MaxLen *)

NoOpts(prefix) ==
    [Prefix |-> prefix, DryRun |-> FALSE, DeleteOnPush |-> FALSE,
     DeleteOnPull |-> FALSE, DeleteOnSync |-> FALSE]

InitCodec ==
    /\ \E p \in Strings(MaxLen) : opts = NoOpts(p)
    /\ files = <<>>
    /\ done = {}
    /\ iter = NoIter
    /\ streams = <<>>
    /\ local = <<>>
    /\ ret = NoRet
    /\ \E k \in Strings(MaxLen) : codec = [stage |-> "key", key |-> k, value |-> k]

CodecNormalize ==
    /\ codec.stage = "key"
    /\ codec' = [codec EXCEPT !.stage = "normalized", !.value = normalizeKey(codec.key)]
    /\ UNCHANGED <<opts, files, done, iter, streams, local, ret>>

CodecDenormalize ==
    /\ codec.stage = "normalized"
    /\ codec' = [codec EXCEPT !.stage = "denormalized", !.value = denormalizeKey(codec.value)]
    /\ UNCHANGED <<opts, files, done, iter, streams, local, ret>>

\* denormalizeKey applied to a backend path as it comes, such as the name of
\* any file the cursor of List returns
CodecDenormalizePath ==
    /\ codec.stage = "key"
    /\ codec' = [codec EXCEPT !.stage = "path", !.value = denormalizeKey(codec.key)]
    /\ UNCHANGED <<opts, files, done, iter, streams, local, ret>>

NextCodec == CodecNormalize \/ CodecDenormalize \/ CodecDenormalizePath

SpecCodec == InitCodec /\ [][NextCodec]_vars

\* joining prefix and key collapses nothing: no separator of the joined
\* string is followed by another one
JoinsCleanly(prefix, key) ==
    LET joined == IF prefix = <<>> THEN key ELSE prefix \o <<Sep>> \o key
    IN  Collapse(joined) = joined

\* C1 as stated: for every prefix and every non-empty key,
\* denormalizeKey(normalizeKey(k)) = k.
C1_RoundTripAnyKey ==
    (codec.stage = "denormalized" /\ codec.key # <<>>) => codec.value = codec.key

\* C1 amended: for every prefix and every non-empty key whose join with the
\* prefix has no two adjacent separators, denormalizeKey(normalizeKey(k)) = k.
C1_RoundTripWellFormed ==
    (codec.stage = "denormalized" /\ codec.key # <<>>
        /\ JoinsCleanly(opts.Prefix, codec.key))
    => codec.value = codec.key

\* a non-empty prefix and a multi-segment key have gone through both maps
C1_Witness ==
    /\ codec.stage = "denormalized"
    /\ opts.Prefix = <<"a">>
    /\ codec.key = <<"b", Sep, "a">>
    /\ codec.value = codec.key

\* C17: denormalizeKey removes the bucket prefix and the separator from a
\* path that begins with them and is longer than them, and returns every
\* other path unchanged
C17_DenormalizeStripsOnlyThePrefix ==
    codec.stage = "path" =>
        LET lead == opts.Prefix \o <<Sep>> IN
        IF opts.Prefix # <<>> /\ HasPrefix(codec.key, lead) /\ Len(codec.key) > Len(lead)
        THEN codec.value = Drop(codec.key, Len(lead))
        ELSE codec.value = codec.key

----------------------------------------------------------------------------
(* The backend: the documents of the GridFS files collection *)

Doc(name, data) == [name |-> name, data |-> data, md5 |-> MD5(data)]

\* a file stored by a client that records no checksum
DocNoMD5(name, data) == [name |-> name, data |-> data, md5 |-> <<>>]

\* the pattern of a query, matched from the start of the name and followed
\* by ".*": a "." of the pattern matches any character, any other character
\* matches itself
regexMatch(pattern, name) ==
    /\ Len(name) >= Len(pattern)
    /\ \A i \in 1..Len(pattern) : pattern[i] = "." \/ pattern[i] = name[i]

\* gridFS().Find(nil) and gridFS().Find({filename: /^<normalized prefix>.*/})
\* over the collection fs
FindIn(fs, prefix) ==
    IF prefix = <<>> THEN fs
    ELSE SelectSeq(fs, LAMBDA d : regexMatch(normalizeKey(prefix), d.name))

Find(prefix) == FindIn(files, prefix)

----------------------------------------------------------------------------
(* Contexts *)

Cancel(c) ==
    /\ c \notin done
    /\ done' = done \cup {c}
    /\ ret' = [op |-> "Cancel"]
    /\ UNCHANGED <<opts, files, iter, streams, local, codec>>

----------------------------------------------------------------------------
(* List and the iterator *)

\* matched, hist, yielded and clean record what the iterator was built over
\* and what its Next calls did; the code keeps ctx, err, item and iter (the
\* cursor and the cursor's own error)
NewIterator(ctx, docs) ==
    [ctx |-> ctx, err |-> Nil, item |-> NoItem, cursor |-> docs,
     cursorErr |-> FALSE, matched |-> docs, hist |-> <<>>, yielded |-> <<>>,
     clean |-> TRUE]

\* the mutant issues the query whatever the state of the context
ListUnchecked(ctx, prefix) ==
    [err |-> Nil, it |-> NewIterator(ctx, Find(prefix)), backendCalls |-> 1]

List(ctx, prefix) ==
    IF ctx \in done
    THEN [err |-> "operation canceled", it |-> NoIter, backendCalls |-> 0]
    ELSE [err |-> Nil, it |-> NewIterator(ctx, Find(prefix)), backendCalls |-> 1]

DoList(ctx, prefix) ==
    LET r == List(ctx, prefix) IN
    /\ iter' = r.it
    /\ ret' = [op |-> "List", prefix |-> prefix, ctxWasDone |-> ctx \in done,
               err |-> r.err, backendCalls |-> r.backendCalls]
    /\ UNCHANGED <<opts, files, done, streams, local, codec>>

\* gridfs.OpenNext(iter.iter, &f): the next document of the cursor, unless
\* the cursor is exhausted or has failed; fault is the backend failing now
OpenNext(it, fault) ==
    IF it.cursorErr \/ it.cursor = <<>>
    THEN [ok |-> FALSE, it |-> it]
    ELSE IF fault
    THEN [ok |-> FALSE, it |-> [it EXCEPT !.cursorErr = TRUE]]
    ELSE [ok |-> TRUE, f |-> Head(it.cursor),
          it |-> [it EXCEPT !.cursor = Tail(it.cursor)]]

\* the cursor of the query is open on the backend until it is exhausted or
\* fails: the iterator has no Close and nothing else closes iter.iter
CursorOpen(it) == ~it.cursorErr /\ it.cursor # <<>>

\* Err() returns the field err, which nothing assigns
Err(it) == it.err

\* the mutant looks at the iterator's own context only
NextIgnoresCallContext(it, ctx, fault) ==
    IF it.ctx \in done THEN [ok |-> FALSE, it |-> it]
    ELSE LET o == OpenNext(it, fault) IN
         IF ~o.ok THEN [ok |-> FALSE, it |-> o.it]
         ELSE [ok |-> TRUE, f |-> o.f,
               it |-> [o.it EXCEPT !.item = [bucket |-> opts.Prefix,
                                             key |-> denormalizeKey(o.f.name)]]]

\* the mutant does not look at what OpenNext returned
NextIgnoresOpenNext(it, ctx, fault) ==
    IF it.ctx \in done \/ ctx \in done THEN [ok |-> FALSE, it |-> it]
    ELSE LET o == OpenNext(it, fault) IN
         IF o.ok
         THEN [ok |-> TRUE, f |-> o.f,
               it |-> [o.it EXCEPT !.item = [bucket |-> opts.Prefix,
                                             key |-> denormalizeKey(o.f.name)]]]
         ELSE [ok |-> TRUE, f |-> [name |-> <<>>], it |-> o.it]

Next(it, ctx, fault) ==
    IF it.ctx \in done THEN [ok |-> FALSE, it |-> it]
    ELSE IF ctx \in done THEN [ok |-> FALSE, it |-> it]
    ELSE LET o == OpenNext(it, fault) IN
         IF ~o.ok THEN [ok |-> FALSE, it |-> o.it]
         ELSE [ok |-> TRUE, f |-> o.f,
               it |-> [o.it EXCEPT !.item = [bucket |-> opts.Prefix,
                                             key |-> denormalizeKey(o.f.name)]]]

DoNext(ctx, fault) ==
    /\ iter # NoIter
    /\ Len(iter.hist) < MaxNextCalls
    /\ LET r == Next(iter, ctx, fault)
           live == iter.ctx \notin done /\ ctx \notin done
           failed == r.it.cursorErr
       IN /\ iter' = [r.it EXCEPT
                        !.hist = Append(@, r.ok),
                        !.yielded = IF r.ok THEN Append(@, r.f) ELSE @,
                        !.clean = @ /\ live /\ ~failed]
          /\ ret' = [op |-> "Next", ok |-> r.ok, live |-> live]
    /\ UNCHANGED <<opts, files, done, streams, local, codec>>

----------------------------------------------------------------------------
(* SpecIter: List and Next over every small files collection *)

BucketPrefixes == {<<>>, <<"p">>}

StoredNames ==
    {<<"a", "b">>, <<"a", ".">>, <<"b">>,
     <<"p", Sep, "a", "b">>, <<"p", Sep, "a", ".">>, <<"p", Sep, "b">>}

ListPrefixes == {<<>>, <<"a">>, <<"a", ".">>}

CollectionsOf(stored, n) ==
    UNION {{[i \in 1..k |-> Doc(names[i], "X")] : names \in [1..k -> stored]}
           : k \in 0..n}

Collections(n) == CollectionsOf(StoredNames, n)

InitIter ==
    /\ \E p \in BucketPrefixes : opts = NoOpts(p)
    /\ files \in Collections(MaxDocs)
    /\ done = {}
    /\ iter = NoIter
    /\ streams = <<>>
    /\ local = <<>>
    /\ ret = NoRet
    /\ codec = NoCodec

NextIter ==
    \/ \E c \in Ctxs : Cancel(c)
    \/ \E c \in Ctxs, p \in ListPrefixes : DoList(c, p)
    \/ \E c \in Ctxs, fault \in BOOLEAN : DoNext(c, fault)

SpecIter == InitIter /\ [][NextIter]_vars

\* C7: List with an already-canceled context returns an error and no
\* iterator, and issues no query to the backend.
C7_CanceledListFailsFast ==
    (ret.op = "List" /\ ret.ctxWasDone)
    => (ret.err # Nil /\ iter = NoIter /\ ret.backendCalls = 0)

\* List was called with a canceled context on a collection that holds files
C7_Witness ==
    ret.op = "List" /\ ret.ctxWasDone /\ Len(files) = 2 /\ ret.prefix = <<"a">>

\* C8: over N matching objects, with live contexts and a cursor that does
\* not fail, exactly the first N calls of Next return true, each one exposing
\* the next object of the result, every later call returns false, and Err()
\* is nil.
C8_IteratorExhaustion ==
    (iter # NoIter /\ iter.clean)
    => LET N == Len(iter.matched)
           n == Min(Len(iter.hist), N)
       IN /\ \A k \in 1..Len(iter.hist) : iter.hist[k] = (k <= N)
          /\ iter.yielded = SubSeq(iter.matched, 1, n)
          /\ n > 0 => iter.item.key = denormalizeKey(iter.matched[n].name)
          /\ iter.err = Nil

\* an iterator over two objects has been called four times with live contexts
C8_Witness ==
    /\ iter # NoIter
    /\ iter.clean
    /\ Len(iter.matched) = 2
    /\ iter.hist = <<TRUE, TRUE, FALSE, FALSE>>

\* C9: List(ctx, p) with a non-empty p yields exactly the stored objects
\* whose name starts, character for character, with normalizeKey(p); with an
\* empty p it yields every object.
C9_ListIsLiteralPrefix ==
    (ret.op = "List" /\ ret.err = Nil)
    => iter.matched
       = SelectSeq(files, LAMBDA d :
            ret.prefix = <<>> \/ HasPrefix(d.name, normalizeKey(ret.prefix)))

\* C14: once the context an iterator was created with has ended, its backend
\* cursor is no longer open, also when the iterator was abandoned before it
\* was exhausted
C14_CursorReleasedWithContext ==
    (iter # NoIter /\ iter.ctx \in done) => ~CursorOpen(iter)

\* C15: when the backend cursor has failed, so that Next returned false for
\* another reason than exhaustion or an ended context, Err() is not nil
C15_ErrExposesCursorFault ==
    (iter # NoIter /\ iter.cursorErr) => Err(iter) # Nil

\* C16: a Next called when the iterator's creation context or the context of
\* the call has ended returns false, fetches nothing from the cursor and
\* leaves the current Item as it was; an ended context stays ended, so every
\* Next after the end of the creation context returns false
C16_NextStopsOnEndedContext ==
    [][/\ done \subseteq done'
       /\ (/\ iter # NoIter /\ iter' # NoIter
           /\ Len(iter'.hist) = Len(iter.hist) + 1
           /\ (iter.ctx \in done \/ ~ret'.live))
          => /\ ~ret'.ok
             /\ iter'.cursor = iter.cursor
             /\ iter'.cursorErr = iter.cursorErr
             /\ iter'.yielded = iter.yielded
             /\ iter'.item = iter.item]_vars

\* Next was refused for an ended context while the iterator had a current
\* Item and objects left to fetch
C16_Witness ==
    /\ ret.op = "Next" /\ ~ret.live /\ ~ret.ok
    /\ iter.ctx \notin done
    /\ iter.item # NoItem
    /\ iter.cursor # <<>>

----------------------------------------------------------------------------
(* The files collection as the mgo driver reads and writes it *)

NoData == "none"

\* the contents of a file that was created and closed without a write
Empty == ""

Exists(fs, name) == \E i \in 1..Len(fs) : fs[i].name = name

\* gridfs.Open(name): the newest file of that name
Latest(fs, name) ==
    fs[CHOOSE i \in 1..Len(fs) :
         /\ fs[i].name = name
         /\ \A j \in (i + 1)..Len(fs) : fs[j].name # name]

\* closing a created file inserts its document; an older file of the same
\* name stays in the collection
Insert(fs, name, data) == Append(fs, Doc(name, data))

\* gridfs.Remove(name): every file of that name
RemoveName(fs, name) == SelectSeq(fs, LAMBDA d : d.name # name)

----------------------------------------------------------------------------
(* Streams: openFile, the monitor goroutine, legacyGridFSFile.Close *)

\* b.session, the session the bucket was built with
SharedSession == "shared"

\* b.gridFS(): the GridFS handle of b.session, named by the session its
\* files do their I/O on
gridFS == SharedSession

\* released counts the calls of ses.Close() on the session cloned for the
\* stream; session is the session the GridFile reads and writes on
Stream(kind, ctx, name, create, state) ==
    [kind |-> kind, ctx |-> ctx, name |-> name, create |-> create,
     state |-> state, wrote |-> NoData,
     session |-> IF kind = "gridfs" /\ state = "open" THEN gridFS ELSE "none",
     released |-> IF state = "failed" THEN 1 ELSE 0,
     monitor |-> IF kind = "gridfs" /\ state = "open" THEN "waiting" ELSE "none"]

\* what is left of a call of openFile once the stream is closed (or was never
\* returned) and no monitor waits: the count of its session's releases
Gone(s) ==
    [kind |-> "gone", ctx |-> "none", name |-> <<>>, create |-> FALSE,
     state |-> s.state, wrote |-> NoData, session |-> "none",
     released |-> s.released, monitor |-> "none"]

Settle(s) ==
    IF s.state \in {"closed", "failed"} /\ s.monitor # "waiting" THEN Gone(s) ELSE s

mockWriteCloser == Stream("mock", "none", <<>>, TRUE, "open")

\* fault: gridfs.Create or gridfs.Open fails in the backend
openFile(fs, ctx, name, create, fault) ==
    LET normalizedName == normalizeKey(name)
        err == IF fault THEN "backend"
               ELSE IF ~create /\ ~Exists(fs, normalizedName) THEN "not found"
               ELSE Nil
    IN  IF err # Nil
        THEN [err |-> err, out |-> Stream("gridfs", ctx, normalizedName, create, "failed")]
        ELSE [err |-> Nil, out |-> Stream("gridfs", ctx, normalizedName, create, "open")]

\* the context derived in openFile ends with the caller's context or with
\* out.cancel, which Close calls
DerivedDone(s) == s.ctx \in done \/ s.state = "closed"

\* the mutant's monitor exits without releasing the session
MonitorForgetsSession(s) == [s EXCEPT !.monitor = "exited"]

\* go func() { <-ctx.Done(); ses.Close() }()
Monitor(s) == [s EXCEPT !.released = @ + 1, !.monitor = "exited"]

\* the mutant releases the session in Close as well
CloseReleasesSession(s, fault) ==
    LET first == s.state = "open" IN
    [err |-> IF first /\ fault THEN "backend" ELSE Nil,
     insert |-> first /\ s.create /\ ~fault,
     out |-> [s EXCEPT !.state = "closed",
                       !.released = IF first THEN @ + 1 ELSE @]]

\* f.cancel(); f.GridFile.Close(): the first Close of a created file writes
\* its document unless the backend fails (fault); a later Close finds the
\* file closed. A mockWriteCloser only reports success.
Close(s, fault) ==
    LET first == s.state = "open" /\ s.kind = "gridfs" IN
    [err |-> IF first /\ fault THEN "backend" ELSE Nil,
     insert |-> first /\ s.create /\ ~fault,
     out |-> [s EXCEPT !.state = "closed"]]

Contents(s) == IF s.wrote = NoData THEN Empty ELSE s.wrote

----------------------------------------------------------------------------
(* Writer, Reader, Put, Remove, RemoveMany *)

Writer(fs, ctx, name, fault) ==
    IF opts.DryRun THEN [err |-> Nil, out |-> mockWriteCloser]
    ELSE openFile(fs, ctx, name, TRUE, fault)

Reader(fs, ctx, name, fault) == openFile(fs, ctx, name, FALSE, fault)

\* the mutant opens the file whatever DryRun says
PutIgnoresDryRun(fs, ctx, name, data, fault) ==
    LET o == openFile(fs, ctx, name, TRUE, fault = "open") IN
    IF o.err # Nil
    THEN [err |-> "problem creating file", fs |-> fs, opened |-> <<o.out>>]
    ELSE LET c == Close([o.out EXCEPT !.wrote = data], fault = "close") IN
         [err |-> c.err, fs |-> IF c.insert THEN Insert(fs, o.out.name, data) ELSE fs,
          opened |-> <<c.out>>]

\* fault: "open" (openFile fails), "copy" (a write to the file fails during
\* io.Copy), "close" (Close fails) or "none"; a mockWriteCloser takes every
\* byte and the input is read without error
Put(fs, ctx, name, data, fault) ==
    IF opts.DryRun THEN [err |-> Nil, fs |-> fs, opened |-> <<>>]
    ELSE LET o == openFile(fs, ctx, name, TRUE, fault = "open") IN
         IF o.err # Nil
         THEN [err |-> "problem creating file", fs |-> fs, opened |-> <<o.out>>]
         ELSE IF fault = "copy"
         THEN [err |-> "problem copying data", fs |-> fs, opened |-> <<o.out>>]
         ELSE LET c == Close([o.out EXCEPT !.wrote = data], fault = "close") IN
              [err |-> IF c.err = Nil THEN Nil ELSE "problem flushing data to file",
               fs |-> IF c.insert THEN Insert(fs, o.out.name, data) ELSE fs,
               opened |-> <<c.out>>]

\* fault: gridFS().Remove fails, and is taken to have removed nothing
Remove(fs, key, fault) ==
    IF opts.DryRun THEN [err |-> Nil, fs |-> fs]
    ELSE IF fault THEN [err |-> "problem removing file", fs |-> fs]
    ELSE [err |-> Nil, fs |-> RemoveName(fs, normalizeKey(key))]

\* the loop of RemoveMany: bad are the keys whose removal fails
RECURSIVE RemoveEach(_, _, _)
RemoveEach(fs, keys, bad) ==
    IF keys = <<>> THEN [errs |-> <<>>, fs |-> fs, attempted |-> <<>>]
    ELSE LET r == Remove(fs, Head(keys), Head(keys) \in bad)
             rest == RemoveEach(r.fs, Tail(keys), bad)
         IN  [errs |-> (IF r.err = Nil THEN <<>> ELSE <<r.err>>) \o rest.errs,
              fs |-> rest.fs,
              attempted |-> <<Head(keys)>> \o rest.attempted]

\* a loop that returns at the first error
RECURSIVE RemoveUntilError(_, _, _)
RemoveUntilError(fs, keys, bad) ==
    IF keys = <<>> THEN [errs |-> <<>>, fs |-> fs, attempted |-> <<>>]
    ELSE LET r == Remove(fs, Head(keys), Head(keys) \in bad) IN
         IF r.err # Nil
         THEN [errs |-> <<r.err>>, fs |-> r.fs, attempted |-> <<Head(keys)>>]
         ELSE LET rest == RemoveUntilError(r.fs, Tail(keys), bad) IN
              [errs |-> rest.errs, fs |-> rest.fs,
               attempted |-> <<Head(keys)>> \o rest.attempted]

\* catcher.Resolve(): nil when no error was added
Resolve(errs) == IF errs = <<>> THEN Nil ELSE errs

\* the mutant stops at the first failure
RemoveManyFailFast(fs, keys, bad) ==
    LET r == RemoveUntilError(fs, keys, bad) IN
    [err |-> Resolve(r.errs), fs |-> r.fs, attempted |-> r.attempted]

RemoveMany(fs, keys, bad) ==
    LET r == RemoveEach(fs, keys, bad) IN
    [err |-> Resolve(r.errs), fs |-> r.fs, attempted |-> r.attempted]

----------------------------------------------------------------------------
(* Spec: the bucket's streams, Put and the removals *)

Keys == {<<"a">>, <<"b">>}

KeyLists == UNION {[1..k -> Keys] : k \in 1..MaxKeys}

\* the caller's context in Spec
Ctx == "c1"

PutFaults == {"none", "open", "copy", "close"}

\* what Spec writes; the files it starts with hold "X"
Written == "Y"

DoWriter(key, fault) ==
    /\ Len(streams) < MaxStreams
    /\ \E r \in {Writer(files, Ctx, key, fault)} :
       /\ streams' = Append(streams, Settle(r.out))
       /\ ret' = [op |-> "Writer", key |-> key, err |-> r.err]
    /\ UNCHANGED <<opts, files, done, iter, local, codec>>

DoReader(key, fault) ==
    /\ Len(streams) < MaxStreams
    /\ \E r \in {Reader(files, Ctx, key, fault)} :
       /\ streams' = Append(streams, Settle(r.out))
       /\ ret' = [op |-> "Reader", key |-> key, err |-> r.err]
    /\ UNCHANGED <<opts, files, done, iter, local, codec>>

\* a Write on a stream a Writer returned
DoWrite(i, data) ==
    /\ i \in 1..Len(streams)
    /\ streams[i].state = "open" /\ streams[i].create
    /\ streams[i].wrote = NoData
    /\ streams' = [streams EXCEPT
                     ![i].wrote = IF streams[i].kind = "mock" THEN NoData ELSE data]
    /\ ret' = [op |-> "Write", stream |-> i, err |-> Nil]
    /\ UNCHANGED <<opts, files, done, iter, local, codec>>

DoClose(i, fault) ==
    /\ i \in 1..Len(streams)
    /\ streams[i].state \in {"open", "closed"}
    /\ \E c \in {Close(streams[i], fault)} :
       /\ c.insert => Len(files) < MaxFiles
       /\ streams' = [streams EXCEPT ![i] = Settle(c.out)]
       /\ files' = IF c.insert
                   THEN Insert(files, streams[i].name, Contents(streams[i]))
                   ELSE files
       /\ ret' = [op |-> "Close", stream |-> i, err |-> c.err,
                  again |-> streams[i].state = "closed",
                  afterCancel |-> Ctx \in done]
    /\ UNCHANGED <<opts, done, iter, local, codec>>

DoMonitor(i) ==
    /\ i \in 1..Len(streams)
    /\ streams[i].monitor = "waiting"
    /\ DerivedDone(streams[i])
    /\ streams' = [streams EXCEPT ![i] = Settle(Monitor(@))]
    /\ ret' = [op |-> "Monitor", stream |-> i]
    /\ UNCHANGED <<opts, files, done, iter, local, codec>>

DoPut(key, data, fault) ==
    \E r \in {Put(files, Ctx, key, data, fault)} :
     /\ Len(streams) + Len(r.opened) <= MaxStreams
     /\ Len(r.fs) <= MaxFiles
     /\ files' = r.fs
     /\ streams' = streams \o [i \in 1..Len(r.opened) |-> Settle(r.opened[i])]
     /\ ret' = [op |-> "Put", key |-> key, err |-> r.err,
                opened |-> {Len(streams) + i : i \in 1..Len(r.opened)}]
     /\ UNCHANGED <<opts, done, iter, local, codec>>

DoRemove(key, fault) ==
    \E r \in {Remove(files, key, fault)} :
     /\ files' = r.fs
     /\ ret' = [op |-> "Remove", key |-> key, err |-> r.err]
     /\ UNCHANGED <<opts, done, iter, streams, local, codec>>

DoRemoveMany(keys, bad) ==
    \E r \in {RemoveMany(files, keys, bad)} :
     /\ files' = r.fs
     /\ ret' = [op |-> "RemoveMany", keys |-> keys, err |-> r.err,
                attempted |-> r.attempted,
                failed |-> IF opts.DryRun THEN {} ELSE bad]
     /\ UNCHANGED <<opts, done, iter, streams, local, codec>>

Init ==
    /\ \E p \in BucketPrefixes, dry \in BOOLEAN :
         /\ opts = [NoOpts(p) EXCEPT !.DryRun = dry]
         /\ files \in CollectionsOf({consistentJoin(p, k) : k \in Keys}, MaxFiles)
    /\ done = {}
    /\ iter = NoIter
    /\ streams = <<>>
    /\ local = <<>>
    /\ ret = NoRet
    /\ codec = NoCodec

\* Spec: Writer, Put and the removals, with and without dry-run
NextBucket ==
    \/ \E k \in Keys, fault \in BOOLEAN : DoWriter(k, fault)
    \/ \E i \in 1..MaxStreams : DoWrite(i, Written)
    \/ \E i \in 1..MaxStreams, fault \in BOOLEAN : DoClose(i, fault)
    \/ \E i \in 1..MaxStreams : DoMonitor(i)
    \/ \E k \in Keys, fault \in PutFaults : DoPut(k, Written, fault)
    \/ \E k \in Keys, fault \in BOOLEAN : DoRemove(k, fault)
    \/ \E ks \in KeyLists : \E bad \in SUBSET {ks[i] : i \in 1..Len(ks)} :
         DoRemoveMany(ks, bad)

Spec == Init /\ [][NextBucket]_vars

----------------------------------------------------------------------------
(* SpecStream: the streams of openFile under Close, repeated Close and the
   end of the caller's context *)

InitStream ==
    /\ \E p \in BucketPrefixes :
         /\ opts = NoOpts(p)
         /\ files \in CollectionsOf({consistentJoin(p, k) : k \in Keys}, MaxFiles)
    /\ done = {}
    /\ iter = NoIter
    /\ streams = <<>>
    /\ local = <<>>
    /\ ret = NoRet
    /\ codec = NoCodec

NextStream ==
    \/ Cancel(Ctx)
    \/ \E k \in Keys, fault \in BOOLEAN : DoWriter(k, fault)
    \/ \E k \in Keys, fault \in BOOLEAN : DoReader(k, fault)
    \/ \E i \in 1..MaxStreams : DoWrite(i, Written)
    \/ \E i \in 1..MaxStreams, fault \in BOOLEAN : DoClose(i, fault)
    \/ \E i \in 1..MaxStreams : DoMonitor(i)
    \/ \E k \in Keys, fault \in PutFaults : DoPut(k, Written, fault)

SpecStream == InitStream /\ [][NextStream]_vars

\* the Go scheduler runs a goroutine that is ready: the monitor of a stream
\* whose derived context has ended is not postponed forever
SpecStreamFair ==
    SpecStream /\ \A i \in 1..MaxStreams : WF_vars(DoMonitor(i))

----------------------------------------------------------------------------
(* Claims about Spec and SpecStream *)

\* C4: with dry-run enabled no step changes the files collection, and every
\* Writer, Put, Remove and RemoveMany returns nil.
C4_DryRunNoOp ==
    [][opts.DryRun =>
         /\ files' = files
         /\ ret'.op \in {"Writer", "Put", "Remove", "RemoveMany"} => ret'.err = Nil]_vars

\* under dry-run a Writer was handed out and RemoveMany was called on the
\* keys of two stored files, which are still there
C4_Witness ==
    /\ opts.DryRun
    /\ ret.op = "RemoveMany"
    /\ ret.err = Nil
    /\ Len(ret.keys) = 2
    /\ ret.keys[1] # ret.keys[2]
    /\ \A i \in 1..2 : Exists(files, normalizeKey(ret.keys[i]))
    /\ Len(streams) = 1

\* C5 as stated: RemoveMany calls Remove for every key, returns nil exactly
\* when no removal failed, and every key whose removal did not fail is gone
\* from the backend afterwards.
C5_RemoveManyRemovesAll ==
    ret.op = "RemoveMany"
    => /\ ret.attempted = ret.keys
       /\ (ret.err = Nil) <=> (ret.failed = {})
       /\ \A i \in 1..Len(ret.keys) :
            ret.keys[i] \notin ret.failed => ~Exists(files, normalizeKey(ret.keys[i]))

\* C5 amended: RemoveMany calls Remove for every key, returns nil exactly
\* when no removal failed, and, unless dry-run is enabled, every key whose
\* removal did not fail is gone from the backend afterwards.
C5_RemoveManyAggregates ==
    ret.op = "RemoveMany"
    => /\ ret.attempted = ret.keys
       /\ (ret.err = Nil) <=> (ret.failed = {})
       /\ ~opts.DryRun =>
            \A i \in 1..Len(ret.keys) :
              ret.keys[i] \notin ret.failed => ~Exists(files, normalizeKey(ret.keys[i]))

\* the first key's removal failed, the second key was removed all the same,
\* and the result is an error
C5_Witness ==
    /\ ret.op = "RemoveMany"
    /\ ~opts.DryRun
    /\ Len(ret.keys) = 2
    /\ ret.failed = {ret.keys[1]}
    /\ ret.err # Nil
    /\ Exists(files, normalizeKey(ret.keys[1]))
    /\ ~Exists(files, normalizeKey(ret.keys[2]))

\* C10: the session cloned for a stream is released at most once, whatever
\* the order of Close, a repeated Close and the end of the caller's context.
C10_ReleasedAtMostOnce ==
    \A i \in 1..Len(streams) : streams[i].released <= 1

\* a stream was closed, its monitor released the session, the caller's
\* context ended, and the stream was closed again
C10_Witness ==
    /\ ret.op = "Close"
    /\ ret.again
    /\ ret.afterCancel
    /\ streams[ret.stream].monitor = "none"
    /\ streams[ret.stream].released = 1

\* a session is released on the spot when the open fails, and then neither
\* a stream nor a monitor is left; the session of a stream that is still
\* open has been released only if the caller's context has ended; a
\* mockWriteCloser has no session
ReleasedInOrder ==
    \A i \in 1..Len(streams) :
        /\ streams[i].state = "failed" =>
              (streams[i].released = 1 /\ streams[i].monitor = "none")
        /\ (streams[i].state = "open" /\ streams[i].released > 0) =>
              streams[i].ctx \in done
        /\ streams[i].kind = "mock" => streams[i].released = 0

\* the stream of entry i is open or closed, its derived context has ended
\* and its monitor has not run yet
ReleaseDue(i) ==
    /\ i \in 1..Len(streams)
    /\ streams[i].monitor = "waiting"
    /\ DerivedDone(streams[i])

\* C11: no session leak. A failed open releases the clone before openFile
\* returns and leaves no stream and no monitor; after a successful open the
\* clone is released once the stream is closed or the caller's context has
\* ended, and not before.
C11_NoSessionLeak ==
    /\ []ReleasedInOrder
    /\ \A i \in 1..MaxStreams :
         ReleaseDue(i) ~> (i \in 1..Len(streams) /\ streams[i].released = 1)

\* the monitor has just released the session of a stream that Close closed
\* while the caller's context was live
C11_Witness ==
    /\ ret.op = "Monitor"
    /\ Ctx \notin done
    /\ streams[ret.stream].state = "closed"
    /\ streams[ret.stream].released = 1

\* the stream of entry i is a GridFile that is open
OpenGridFile(i) == streams[i].kind = "gridfs" /\ streams[i].state = "open"

\* C12: an open stream does its I/O on the session cloned for it and not on
\* the bucket's shared session, so no two open streams use the same session
C12_StreamsUseTheirClone ==
    \A i \in 1..Len(streams) :
        OpenGridFile(i) =>
            /\ streams[i].session # SharedSession
            /\ \A j \in 1..Len(streams) :
                 (j # i /\ OpenGridFile(j)) => streams[j].session # streams[i].session

----------------------------------------------------------------------------
(* The local tree and the helpers of the sync engine *)

\* regexp.MatchString for a pattern of literal characters: the pattern
\* occurs somewhere in s
MatchString(pattern, s) ==
    \E i \in 0..(Len(s) - Len(pattern)) : SubSeq(s, i + 1, i + Len(pattern)) = pattern

\* re != nil && re.MatchString(s); the empty Exclude compiles no expression
Excluded(exclude, s) == exclude # <<>> /\ MatchString(exclude, s)

TrimPrefix(s, p) == IF HasPrefix(s, p) THEN Drop(s, Len(p)) ELSE s

RECURSIVE TrimLeft(_)
TrimLeft(s) == IF s # <<>> /\ Head(s) = Sep THEN TrimLeft(Tail(s)) ELSE s

RECURSIVE TrimRight(_)
TrimRight(s) ==
    IF s # <<>> /\ s[Len(s)] = Sep THEN TrimRight(SubSeq(s, 1, Len(s) - 1)) ELSE s

\* filepath.Join(opts.Local, fn), as a path relative to opts.Local: the
\* empty path is opts.Local itself
filepathJoin(fn) == TrimRight(TrimLeft(Collapse(fn)))

\* the relative paths in the order filepath.Walk visits them
PathOrder == <<<<"a">>, <<"b">>, <<"c">>>>

RelPaths == {PathOrder[i] : i \in 1..Len(PathOrder)}

\* walkLocalTree: the relative path of every regular file under the root
walkLocalTree(loc) == SelectSeq(PathOrder, LAMBDA p : p \in DOMAIN loc)

\* md5sum(path): the checksum of a regular file; a path that does not exist
\* is reported as such, the root directory cannot be read as a file
md5sum(loc, path) ==
    IF path = <<>> THEN [err |-> "is a directory"]
    ELSE IF path \notin DOMAIN loc THEN [err |-> "not exist"]
    ELSE [err |-> Nil, sum |-> MD5(loc[path])]

WriteLocal(loc, path, data) ==
    [x \in DOMAIN loc \cup {path} |-> IF x = path THEN data ELSE loc[x]]

NoFault == [kind |-> "none", on |-> <<>>]

Is(fault, kind, on) == fault.kind = kind /\ fault.on = on

----------------------------------------------------------------------------
(* Upload, Download *)

\* fault: the write to the backend fails
Upload(fs, loc, name, path, fault) ==
    IF path \notin DOMAIN loc
    THEN [err |-> "problem opening file", fs |-> fs, opened |-> <<>>]
    ELSE Put(fs, Ctx, name, loc[path], IF fault THEN "copy" ELSE "none")

\* fault: the Reader cannot be opened; the file is created at path under the
\* local root and receives the newest contents stored under the name; opened
\* is the reader as Download leaves it
Download(fs, loc, name, path, fault) ==
    LET copy(o) ==
            IF o.err # Nil THEN [err |-> o.err, loc |-> loc, opened |-> <<o.out>>]
            ELSE IF path = <<>>
            THEN [err |-> "problem creating file", loc |-> loc, opened |-> <<o.out>>]
            ELSE [err |-> Nil,
                  loc |-> WriteLocal(loc, path, Latest(fs, o.out.name).data),
                  opened |-> <<o.out>>]
    IN  copy(Reader(fs, Ctx, name, fault))

----------------------------------------------------------------------------
(* Push *)

NoSum == <<"none">>

\* one record per local path the loop of Push reaches; remoteSum is what
\* file.MD5() returned when the path was found remotely, same whether it
\* equals the checksum of the local file
PushStep(path, excluded, found, remoteSum, same, uploaded, err) ==
    [path |-> path, excluded |-> excluded, found |-> found,
     remoteSum |-> remoteSum, same |-> same, uploaded |-> uploaded, err |-> err]

\* the step of a path that Push uploads: u is what Upload returned
UploadStep(path, found, remoteSum, same, u) ==
    [fs |-> u.fs,
     step |-> PushStep(path, FALSE, found, remoteSum, same, TRUE,
                       IF u.err = Nil THEN Nil ELSE "problem uploading")]

\* the mutant uploads a file that is found remotely whatever its checksum
PushOneAlwaysUploads(fs, loc, o, path, fault) ==
    LET target == consistentJoin(o.Remote, path)
        name == normalizeKey(target)
        found == Exists(fs, name)
        remoteSum == IF found THEN Latest(fs, name).md5 ELSE NoSum
        same == found /\ remoteSum = md5sum(loc, path).sum
    IN  UploadStep(path, found, remoteSum, same, Upload(fs, loc, target, path, FALSE))

\* the mutant takes a file without a recorded checksum for unchanged
PushOneTrustsEmptySum(fs, loc, o, path, fault) ==
    LET target == consistentJoin(o.Remote, path)
        name == normalizeKey(target)
        found == Exists(fs, name)
        remoteSum == IF found THEN Latest(fs, name).md5 ELSE NoSum
        same == found /\ remoteSum = md5sum(loc, path).sum
    IN  IF found /\ (same \/ remoteSum = <<>>)
        THEN [fs |-> fs, step |-> PushStep(path, FALSE, TRUE, remoteSum, same, FALSE, Nil)]
        ELSE UploadStep(path, found, remoteSum, same,
                        Upload(fs, loc, target, path, FALSE))

\* the body of the loop of Push for one local path; fault names the step
\* that fails on this path: "find" (gridfs.Open fails other than with
\* ErrNotFound), "checksum" (md5sum fails) or "upload"
PushOne(fs, loc, o, path, fault) ==
    LET target == consistentJoin(o.Remote, path)
        name == normalizeKey(target)
        found == Exists(fs, name)
        remoteSum == IF found THEN Latest(fs, name).md5 ELSE NoSum
        sum == md5sum(loc, path)
        same == found /\ sum.err = Nil /\ remoteSum = sum.sum
    IN  IF Excluded(o.Exclude, path)
        THEN [fs |-> fs,
              step |-> PushStep(path, TRUE, FALSE, NoSum, FALSE, FALSE, Nil)]
        ELSE IF Is(fault, "find", path)
        THEN [fs |-> fs,
              step |-> PushStep(path, FALSE, FALSE, NoSum, FALSE, FALSE,
                                "problem finding")]
        ELSE IF found /\ (Is(fault, "checksum", path) \/ sum.err # Nil)
        THEN [fs |-> fs,
              step |-> PushStep(path, FALSE, TRUE, remoteSum, FALSE, FALSE,
                                "problem checksumming")]
        ELSE IF found /\ remoteSum = sum.sum
        THEN [fs |-> fs,
              step |-> PushStep(path, FALSE, TRUE, remoteSum, same, FALSE, Nil)]
        ELSE UploadStep(path, found, remoteSum, same,
                        Upload(fs, loc, target, path, Is(fault, "upload", path)))

\* the mutant goes on to the next path after a step that fails and returns
\* the first error at the end
RECURSIVE PushEachKeepsGoing(_, _, _, _, _)
PushEachKeepsGoing(fs, loc, o, paths, fault) ==
    LET cons(step, rest) ==
            [err |-> IF step.err # Nil THEN step.err ELSE rest.err,
             fs |-> rest.fs, steps |-> <<step>> \o rest.steps]
        after(one) ==
            cons(one.step, PushEachKeepsGoing(one.fs, loc, o, Tail(paths), fault))
    IN  IF paths = <<>> THEN [err |-> Nil, fs |-> fs, steps |-> <<>>]
        ELSE after(PushOne(fs, loc, o, Head(paths), fault))

\* the loop of Push: it returns at the first step that fails
RECURSIVE PushEach(_, _, _, _, _)
PushEach(fs, loc, o, paths, fault) ==
    LET cons(step, rest) ==
            [err |-> rest.err, fs |-> rest.fs, steps |-> <<step>> \o rest.steps]
        after(one) ==
            IF one.step.err # Nil
            THEN [err |-> one.step.err, fs |-> one.fs, steps |-> <<one.step>>]
            ELSE cons(one.step, PushEach(one.fs, loc, o, Tail(paths), fault))
    IN  IF paths = <<>> THEN [err |-> Nil, fs |-> fs, steps |-> <<>>]
        ELSE after(PushOne(fs, loc, o, Head(paths), fault))

\* the relative path of a listed key: the key without the remote prefix and
\* the separator after it
RelativeTo(remote, key) == TrimPrefix(TrimPrefix(key, remote), <<Sep>>)

\* deleteOnPush: every object List(remote) yields whose relative path is not
\* a local path is removed with RemoveMany; fault "remove" fails the removals
deleteOnPush(fs, paths, remote, fault) ==
    LET listed == FindIn(fs, remote)
        keys == [i \in 1..Len(listed) |-> denormalizeKey(listed[i].name)]
        local_ == {paths[i] : i \in 1..Len(paths)}
        toDelete == SelectSeq(keys, LAMBDA k : RelativeTo(remote, k) \notin local_)
        removed(r) == [err |-> r.err, fs |-> r.fs, deleted |-> toDelete]
    IN  IF toDelete = <<>> THEN [err |-> Nil, fs |-> fs, deleted |-> <<>>]
        ELSE removed(RemoveMany(fs, toDelete,
                                IF fault.kind = "remove"
                                THEN {toDelete[i] : i \in 1..Len(toDelete)} ELSE {}))

\* the mutant never deletes after the uploads
PushWithoutDelete(fs, loc, o, fault) ==
    LET uploaded(r) == [err |-> r.err, fs |-> r.fs, steps |-> r.steps, deleted |-> <<>>]
    IN  uploaded(PushEach(fs, loc, o, walkLocalTree(loc), fault))

\* o is the SyncOptions: Remote and Exclude (Local is the root of loc);
\* fault "walk" fails walkLocalTree
Push(fs, loc, o, fault) ==
    LET localPaths == walkLocalTree(loc)
        deleted(steps, d) ==
            [err |-> IF d.err = Nil THEN Nil
                     ELSE "problem with delete on sync after push",
             fs |-> d.fs, steps |-> steps, deleted |-> d.deleted]
        uploaded(r) ==
            IF r.err # Nil
            THEN [err |-> r.err, fs |-> r.fs, steps |-> r.steps, deleted |-> <<>>]
            ELSE IF (opts.DeleteOnPush \/ opts.DeleteOnSync) /\ ~opts.DryRun
            THEN deleted(r.steps, deleteOnPush(r.fs, localPaths, o.Remote, fault))
            ELSE [err |-> Nil, fs |-> r.fs, steps |-> r.steps, deleted |-> <<>>]
    IN  IF fault.kind = "walk"
        THEN [err |-> "problem finding local paths", fs |-> fs, steps |-> <<>>,
              deleted |-> <<>>]
        ELSE uploaded(PushEach(fs, loc, o, localPaths, fault))

----------------------------------------------------------------------------
(* Pull *)

\* one record per object the loop of Pull reaches; remoteSum is f.MD5(),
\* existing the set of local paths present when the step starts
PullStep(name, remoteSum, existing, excluded, fn, absent, downloaded, err) ==
    [name |-> name, remoteSum |-> remoteSum, existing |-> existing,
     excluded |-> excluded, fn |-> fn, absent |-> absent,
     downloaded |-> downloaded, err |-> err]

NoKey == <<"none">>

\* the step of an object that Pull downloads: d is what Download returned
DownloadStep(f, existing, fn, absent, d) ==
    [loc |-> d.loc, key |-> fn,
     step |-> PullStep(f.name, f.md5, existing, FALSE, fn, absent, TRUE, d.err)]

\* the body of the loop of Pull for one object f of the listing; fault names
\* the step that fails on this object: "checksum" (md5sum fails for another
\* reason than a missing file, on a file that exists) or "download"
PullOne(fs, loc, o, f, fault) ==
    LET denormalizedName == denormalizeKey(f.name)
        fn == Drop(denormalizedName, Len(o.Remote) + 1)
        name == filepathJoin(fn)
        sum == md5sum(loc, name)
        absent == sum.err = "not exist"
    IN  IF Excluded(o.Exclude, f.name)
        THEN [loc |-> loc, key |-> NoKey,
              step |-> PullStep(f.name, f.md5, DOMAIN loc, TRUE, NoKey, FALSE, FALSE, Nil)]
        ELSE IF Len(denormalizedName) < Len(o.Remote) + 1
        THEN [loc |-> loc, key |-> NoKey,
              step |-> PullStep(f.name, f.md5, DOMAIN loc, FALSE, NoKey, FALSE, FALSE,
                                "panic: slice bounds out of range")]
        ELSE IF ~absent /\ Is(fault, "checksum", f.name)
        THEN [loc |-> loc, key |-> fn,
              step |-> PullStep(f.name, f.md5, DOMAIN loc, FALSE, fn, FALSE, FALSE, "checksum")]
        ELSE IF ~absent /\ sum.err # Nil
        THEN [loc |-> loc, key |-> fn,
              step |-> PullStep(f.name, f.md5, DOMAIN loc, FALSE, fn, FALSE, FALSE, sum.err)]
        ELSE IF ~absent /\ f.md5 = sum.sum
        THEN [loc |-> loc, key |-> fn,
              step |-> PullStep(f.name, f.md5, DOMAIN loc, FALSE, fn, FALSE, FALSE, Nil)]
        ELSE DownloadStep(f, DOMAIN loc, fn, absent,
                          Download(fs, loc, denormalizedName, name,
                                   Is(fault, "download", f.name)))

\* the loop of Pull over the cursor of the listing; fault "iter" fails the
\* cursor when it is asked for the object of that name
RECURSIVE PullEach(_, _, _, _, _)
PullEach(fs, loc, o, cursor, fault) ==
    LET keyOf(one) == IF one.key = NoKey THEN <<>> ELSE <<one.key>>
        cons(key, step, rest) ==
            [err |-> rest.err, loc |-> rest.loc, keys |-> key \o rest.keys,
             steps |-> <<step>> \o rest.steps]
        after(one) ==
            IF one.step.err # Nil
            THEN [err |-> one.step.err, loc |-> one.loc, keys |-> keyOf(one),
                  steps |-> <<one.step>>]
            ELSE cons(keyOf(one), one.step,
                      PullEach(fs, one.loc, o, Tail(cursor), fault))
    IN  IF cursor = <<>> THEN [err |-> Nil, loc |-> loc, keys |-> <<>>, steps |-> <<>>]
        ELSE IF Is(fault, "iter", Head(cursor).name)
        THEN [err |-> "problem iterating bucket", loc |-> loc, keys |-> <<>>,
              steps |-> <<>>]
        ELSE after(PullOne(fs, loc, o, Head(cursor), fault))

\* deleteOnPull: every local file whose relative path is not a pulled key
deleteOnPull(loc, keys) ==
    [x \in {p \in DOMAIN loc : \E i \in 1..Len(keys) : keys[i] = p} |-> loc[x]]

\* the mutant runs the delete phase whether or not the loop has failed
PullDeletesAfterFailure(loc, o, fault) ==
    LET pulled(listed, r) ==
            [err |-> r.err,
             loc |-> IF (opts.DeleteOnPull \/ opts.DeleteOnSync) /\ ~opts.DryRun
                     THEN deleteOnPull(r.loc, r.keys) ELSE r.loc,
             keys |-> r.keys, steps |-> r.steps, listed |-> listed]
        listing(l) ==
            IF l.err # Nil
            THEN [err |-> l.err, loc |-> loc, keys |-> <<>>, steps |-> <<>>,
                  listed |-> <<>>]
            ELSE pulled(l.it.cursor, PullEach(files, loc, o, l.it.cursor, fault))
    IN  listing(List(Ctx, o.Remote))

Pull(loc, o, fault) ==
    LET pulled(listed, r) ==
            [err |-> r.err,
             loc |-> IF r.err = Nil /\ (opts.DeleteOnPull \/ opts.DeleteOnSync)
                        /\ ~opts.DryRun
                     THEN deleteOnPull(r.loc, r.keys) ELSE r.loc,
             keys |-> r.keys, steps |-> r.steps, listed |-> listed]
        listing(l) ==
            IF l.err # Nil
            THEN [err |-> l.err, loc |-> loc, keys |-> <<>>, steps |-> <<>>,
                  listed |-> <<>>]
            ELSE pulled(l.it.cursor, PullEach(files, loc, o, l.it.cursor, fault))
    IN  listing(List(Ctx, o.Remote))

----------------------------------------------------------------------------
(* SpecSync: Push and Pull between a local tree and the bucket.  The streams
   that Upload and Download open are not recorded in this specification. *)

SyncRemotes == {<<>>, <<"r">>}

\* no pattern, a pattern that matches the local path b, one that matches the
\* object c
SyncExcludes == {<<>>, <<"b">>, <<"c">>}

SyncOptions == [Remote : SyncRemotes, Exclude : SyncExcludes]

DeleteFlags == {"none", "push", "pull", "sync"}

\* the local trees a behaviour starts from
LocalTrees == {[x \in S |-> "X"] : S \in {{}, {<<"a">>}, {<<"a">>, <<"b">>}}}

\* the buckets a behaviour starts from hold, under one remote prefix, at
\* most an object a (with the contents of the local file, with other
\* contents or without a recorded checksum) and then an object c, which no
\* local tree holds
RemoteCollections(prefix) ==
    LET name(rm, rel) == consistentJoin(prefix, consistentJoin(rm, rel))
        as(rm) == {<<>>, <<Doc(name(rm, <<"a">>), "X")>>, <<Doc(name(rm, <<"a">>), "Y")>>,
                   <<DocNoMD5(name(rm, <<"a">>), "X")>>}
        cs(rm) == {<<>>, <<Doc(name(rm, <<"c">>), "X")>>}
    IN  UNION {{a \o c : a \in as(rm), c \in cs(rm)} : rm \in SyncRemotes}

PushFaults ==
    {NoFault, [kind |-> "walk", on |-> <<>>], [kind |-> "remove", on |-> <<>>],
     [kind |-> "find", on |-> <<"a">>], [kind |-> "checksum", on |-> <<"a">>],
     [kind |-> "upload", on |-> <<"a">>], [kind |-> "upload", on |-> <<"b">>]}

PullFaults(fs) ==
    {NoFault} \cup [kind : {"iter", "checksum", "download"},
                    on : {fs[i].name : i \in 1..Min(Len(fs), 2)}]

\* the relative paths of the objects List(remote) yields
RemoteRel(fs, remote) ==
    LET listed == FindIn(fs, remote) IN
    {RelativeTo(remote, denormalizeKey(listed[i].name)) : i \in 1..Len(listed)}

DoPush(o, fault) ==
    /\ ret.n < MaxSyncs
    /\ \E r \in {Push(files, local, o, fault)} :
         /\ files' = r.fs
         /\ ret' = [op |-> "Push", n |-> ret.n + 1, o |-> o, err |-> r.err,
                    steps |-> r.steps, deleted |-> r.deleted,
                    repeat |-> ret.op = "Push" /\ ret.err = Nil /\ ret.o = o,
                    unchanged |-> r.fs = files,
                    beforeRel |-> RemoteRel(files, o.Remote)]
    /\ UNCHANGED <<opts, done, iter, streams, local, codec>>

DoPull(o, fault) ==
    /\ ret.n < MaxSyncs
    /\ \E r \in {Pull(local, o, fault)} :
         /\ local' = r.loc
         /\ ret' = [op |-> "Pull", n |-> ret.n + 1, o |-> o, err |-> r.err,
                    steps |-> r.steps, listed |-> r.listed, keys |-> r.keys]
    /\ UNCHANGED <<opts, files, done, iter, streams, codec>>

InitSync ==
    /\ \E p \in BucketPrefixes, dry \in BOOLEAN, del \in DeleteFlags :
         /\ opts = [Prefix |-> p, DryRun |-> dry, DeleteOnPush |-> del = "push",
                    DeleteOnPull |-> del = "pull", DeleteOnSync |-> del = "sync"]
         /\ files \in RemoteCollections(p)
    /\ local \in LocalTrees
    /\ done = {}
    /\ iter = NoIter
    /\ streams = <<>>
    /\ ret = [op |-> "none", n |-> 0]
    /\ codec = NoCodec

NextSync ==
    \/ \E o \in SyncOptions, fault \in PushFaults : DoPush(o, fault)
    \/ \E o \in SyncOptions, fault \in PullFaults(files) : DoPull(o, fault)

SpecSync == InitSync /\ [][NextSync]_vars

----------------------------------------------------------------------------
(* Push and Pull: the claims *)

DeleteAfterPush == (opts.DeleteOnPush \/ opts.DeleteOnSync) /\ ~opts.DryRun

\* the Push just returned found every file it reached and did not exclude
\* with a matching checksum, uploaded nothing and left the bucket as it was
PushTransfersNothing ==
    /\ \A i \in 1..Len(ret.steps) :
         /\ ~ret.steps[i].uploaded
         /\ (~ret.steps[i].excluded /\ ret.steps[i].err = Nil)
              => (ret.steps[i].found /\ ret.steps[i].same)
    /\ ret.unchanged

ReuploadOnlyIfDiffers ==
    \A i \in 1..Len(ret.steps) :
        (ret.steps[i].found /\ ret.steps[i].uploaded) => ~ret.steps[i].same

\* C3 as stated: with deletion after Push enabled, after a successful Push
\* the remote keys under the remote prefix are exactly the local relative
\* paths, and a file already present is uploaded again only if its checksum
\* differs
C3_PushReconciles ==
    (ret.op = "Push" /\ ret.err = Nil /\ DeleteAfterPush)
        => /\ RemoteRel(files, ret.o.Remote) = DOMAIN local
           /\ ReuploadOnlyIfDiffers

\* C3, amended: with deletion after Push enabled, after a successful Push
\* the remote keys under the remote prefix are exactly the local relative
\* paths that the exclude pattern does not match or that were present
\* remotely before the Push, and a file already present is uploaded again
\* only if its checksum differs
C3_PushReconcilesNotExcluded ==
    (ret.op = "Push" /\ ret.err = Nil /\ DeleteAfterPush)
        => /\ RemoteRel(files, ret.o.Remote)
                = {rel \in DOMAIN local :
                     ~Excluded(ret.o.Exclude, rel) \/ rel \in ret.beforeRel}
           /\ ReuploadOnlyIfDiffers

C3_Witness ==
    /\ ret.op = "Push" /\ ret.err = Nil /\ DeleteAfterPush
    /\ ret.deleted # <<>>
    /\ \E i \in 1..Len(ret.steps) : ret.steps[i].found /\ ret.steps[i].uploaded
    /\ \E i \in 1..Len(ret.steps) : ~ret.steps[i].found /\ ret.steps[i].uploaded
    /\ RemoteRel(files, ret.o.Remote) = DOMAIN local

\* the relative path Push uploads an object of the listing from: its key
\* without the remote prefix and the separator after it
CorrespondingPath(step) == RelativeTo(ret.o.Remote, denormalizeKey(step.name))

\* C6: every object Pull reaches that is not excluded and whose
\* corresponding local file does not exist is downloaded, the step fails
\* only if that download fails, and when the download succeeds Pull goes on
\* to the next object of the listing
C6_AbsentFileIsDownloaded ==
    ret.op = "Pull" =>
        \A i \in 1..Len(ret.steps) :
            (~ret.steps[i].excluded
               /\ CorrespondingPath(ret.steps[i]) \notin ret.steps[i].existing) =>
                /\ ret.steps[i].downloaded
                /\ ret.steps[i].err = Nil =>
                     \/ i < Len(ret.steps)
                     \/ i = Len(ret.listed)
                     \/ ret.err = "problem iterating bucket"

----------------------------------------------------------------------------
(* SpecTransfer: Put and Download with the streams they open, under Close,
   the monitor goroutine and the end of the caller's context *)

\* Download of a stored key into the local file of the same name
DoDownload(key, fault) ==
    /\ Len(streams) < MaxStreams
    /\ \E r \in {Download(files, local, key, key, fault)} :
         /\ streams' = streams \o [i \in 1..Len(r.opened) |-> Settle(r.opened[i])]
         /\ local' = r.loc
         /\ ret' = [op |-> "Download", key |-> key, err |-> r.err,
                    opened |-> {Len(streams) + i : i \in 1..Len(r.opened)}]
    /\ UNCHANGED <<opts, files, done, iter, codec>>

NextTransfer ==
    \/ Cancel(Ctx)
    \/ \E k \in Keys, fault \in PutFaults : DoPut(k, Written, fault)
    \/ \E k \in Keys, fault \in BOOLEAN : DoDownload(k, fault)
    \/ \E i \in 1..MaxStreams, fault \in BOOLEAN : DoClose(i, fault)
    \/ \E i \in 1..MaxStreams : DoMonitor(i)
    \/ \E k \in Keys, fault \in BOOLEAN : DoRemove(k, fault)

SpecTransfer == InitStream /\ [][NextTransfer]_vars

\* C13: when Put or Download returns, with or without an error, every stream
\* the call opened is closed (its session released, or its release under way
\* in the monitor), whether or not the caller's context has ended
C13_CallsCloseTheirStreams ==
    ret.op \in {"Put", "Download"} =>
        \A i \in ret.opened : streams[i].state # "open"

\* the newest object stored at the target of a local path holds the
\* contents of the local file
StoredFromLocal(path) ==
    LET name == normalizeKey(consistentJoin(ret.o.Remote, path)) IN
    Exists(files, name) /\ Latest(files, name).data = local[path]

\* C18: a Push that fails in the enumeration of the local tree or in the
\* lookup, the checksum or the upload of a file returns that error at once:
\* the steps it took are the local paths up to the failing one, in order,
\* none after it is examined or uploaded, nothing is deleted, and the files
\* uploaded before the failure are still stored
C18_PushFailsFast ==
    (ret.op = "Push"
       /\ ret.err \notin {Nil, "problem with delete on sync after push"}) =>
        LET walk == walkLocalTree(local)
            n == Len(ret.steps)
        IN  /\ ret.deleted = <<>>
            /\ n <= Len(walk)
            /\ \A i \in 1..n : ret.steps[i].path = walk[i]
            /\ \A i \in 1..(n - 1) : ret.steps[i].err = Nil
            /\ n > 0 => ret.steps[n].err = ret.err
            /\ n = 0 => (ret.err = "problem finding local paths" /\ ret.unchanged)
            /\ \A i \in 1..(n - 1) :
                 (ret.steps[i].uploaded /\ ~opts.DryRun)
                    => StoredFromLocal(ret.steps[i].path)

\* Push uploaded the first of three local files, failed on the second and
\* left the third alone
C18_Witness ==
    /\ ret.op = "Push" /\ ~opts.DryRun
    /\ Len(walkLocalTree(local)) = 3
    /\ Len(ret.steps) = 2
    /\ ret.steps[1].uploaded /\ ret.steps[1].err = Nil
    /\ ret.steps[2].err # Nil /\ ret.err = ret.steps[2].err
    /\ ~ret.unchanged


\* the step reached the comparison of the two checksums or had no remote
\* object to compare with: finding the object and reading the local file
\* did not fail
PushDecided(step) ==
    ~step.excluded /\ step.err \notin {"problem finding", "problem checksumming"}

\* the step of Pull did not fail before it chose between Download and
\* leaving the local file alone
PullDecided(step) == ~step.excluded /\ (step.downloaded \/ step.err = Nil)

\* C19: for every local file that is not excluded Push calls Upload exactly
\* when no object is stored at the target or the checksum the backend
\* reports differs from the checksum of the local file; an object without a
\* recorded checksum is always transferred, by Push and by Pull, and the
\* only error such a step can end with is the one of the transfer itself
C19_TransferDecision ==
    /\ ret.op = "Push" =>
         \A i \in 1..Len(ret.steps) :
           LET step == ret.steps[i] IN
           PushDecided(step) =>
             /\ step.uploaded <=>
                  (~step.found \/ step.remoteSum # md5sum(local, step.path).sum)
             /\ (step.found /\ step.remoteSum = <<>>) =>
                  (step.uploaded /\ step.err \in {Nil, "problem uploading"})
    /\ ret.op = "Pull" =>
         \A i \in 1..Len(ret.steps) :
           LET step == ret.steps[i] IN
           (PullDecided(step) /\ step.remoteSum = <<>>) =>
             step.downloaded

\* a Push that uploads one file because the stored object has no checksum
\* although its contents equal the local file, and succeeds
C19_Witness ==
    /\ ret.op = "Push" /\ ret.err = Nil
    /\ \E i \in 1..Len(ret.steps) :
         /\ ret.steps[i].found /\ ret.steps[i].remoteSum = <<>>
         /\ ret.steps[i].uploaded
         /\ local[ret.steps[i].path] = "X"


\* the pulled set: the path, relative to the remote prefix, of every listed
\* object the exclude pattern does not match
PulledSet ==
    {RelativeTo(ret.o.Remote, denormalizeKey(ret.listed[i].name)) :
       i \in {j \in 1..Len(ret.listed) :
                ~Excluded(ret.o.Exclude, ret.listed[j].name)}}

\* C20: with delete-on-pull or delete-on-sync and without dry-run, the files
\* under the local root after a successful Pull are exactly the pulled set
C20_PullReconciles ==
    (/\ ret.op = "Pull" /\ ret.err = Nil
     /\ opts.DeleteOnPull \/ opts.DeleteOnSync
     /\ ~opts.DryRun)
    => DOMAIN local = PulledSet


\* every document of fs is still a document of gs
KeepsObjects(fs, gs) ==
    \A i \in 1..Len(fs) : \E j \in 1..Len(gs) : gs[j] = fs[i]

\* the names stored in fs
NamesIn(fs) == {fs[i].name : i \in 1..Len(fs)}

\* no step of the loop that has just returned failed
TransfersSucceeded(r) == \A i \in 1..Len(r.steps) : r.steps[i].err = Nil

DeleteAfterPull == (opts.DeleteOnPull \/ opts.DeleteOnSync) /\ ~opts.DryRun

\* C21: a Push that loses a stored object has its delete flag set, runs
\* without dry-run, got through every path without an error and loses only
\* what its delete phase chose to remove; a Pull that loses a local file has
\* its delete flag set, runs without dry-run and got through the whole
\* listing without an error
C21_DeletionGated ==
    [][ /\ ~KeepsObjects(files, files') =>
             /\ ret'.op = "Push"
             /\ DeleteAfterPush
             /\ TransfersSucceeded(ret')
             /\ ret'.err \in {Nil, "problem with delete on sync after push"}
             /\ NamesIn(files) \ NamesIn(files') \subseteq
                  {normalizeKey(ret'.deleted[i]) : i \in 1..Len(ret'.deleted)}
        /\ ~(DOMAIN local \subseteq DOMAIN local') =>
             /\ ret'.op = "Pull"
             /\ DeleteAfterPull
             /\ TransfersSucceeded(ret')
             /\ ret'.err = Nil
      ]_vars

\* a Push with delete-on-push and without dry-run fails on an upload while
\* the bucket holds an object that no local file corresponds to
C21_Witness ==
    /\ ret.op = "Push" /\ DeleteAfterPush
    /\ ret.err = "problem uploading"
    /\ ~(ret.beforeRel \subseteq DOMAIN local)
    /\ ret.deleted = <<>>


----------------------------------------------------------------------------
(* SpecRoundTrip: a local tree is pushed into an empty bucket and the bucket
   is then pulled, under the same remote prefix, into an empty directory.
   local is the root the running call works on: the tree before the Pull,
   the directory the Pull fills after it. *)

\* every tree of files a, b, c
RoundTripTrees == UNION {[S -> Data] : S \in SUBSET RelPaths}

RoundTripOptions == [Remote : SyncRemotes, Exclude : {<<>>}]

EmptyDir == [x \in {} |-> "X"]

InitRoundTrip ==
    /\ \E p \in BucketPrefixes, dry \in BOOLEAN, del \in DeleteFlags :
         opts = [Prefix |-> p, DryRun |-> dry, DeleteOnPush |-> del = "push",
                 DeleteOnPull |-> del = "pull", DeleteOnSync |-> del = "sync"]
    /\ files = <<>>
    /\ local \in RoundTripTrees
    /\ done = {}
    /\ iter = NoIter
    /\ streams = <<>>
    /\ ret = [op |-> "none"]
    /\ codec = NoCodec

RoundTripPush(o) ==
    /\ ret.op = "none"
    /\ \E r \in {Push(files, local, o, NoFault)} :
         /\ files' = r.fs
         /\ ret' = [op |-> "Push", o |-> o, err |-> r.err, steps |-> r.steps]
    /\ UNCHANGED <<opts, done, iter, streams, local, codec>>

RoundTripPull ==
    /\ ret.op = "Push"
    /\ \E r \in {Pull(EmptyDir, ret.o, NoFault)} :
         /\ local' = r.loc
         /\ ret' = [op |-> "Pull", o |-> ret.o, err |-> r.err, steps |-> r.steps,
                    keys |-> r.keys, tree |-> local, pushed |-> ret.steps]
    /\ UNCHANGED <<opts, files, done, iter, streams, codec>>

NextRoundTrip == (\E o \in RoundTripOptions : RoundTripPush(o)) \/ RoundTripPull

SpecRoundTrip == InitRoundTrip /\ [][NextRoundTrip]_vars

\* C22: without dry-run, the Pull that follows the Push of a tree returns no
\* error, fills the empty directory with exactly the files of the tree, and
\* derives from the i-th object the relative path Push uploaded it from
C22_RoundTrip ==
    (ret.op = "Pull" /\ ~opts.DryRun) =>
      /\ ret.err = Nil
      /\ DOMAIN local = DOMAIN ret.tree
      /\ Len(ret.steps) = Len(ret.pushed)
      /\ \A i \in 1..Len(ret.steps) : ret.steps[i].fn = ret.pushed[i].path


----------------------------------------------------------------------------
(* The iterator's items *)

\* C23: the key of the iterator's current item normalizes to the backend
\* name of the object the cursor returned for it
C23_ItemKeyIsFaithful ==
    (iter # NoIter /\ iter.item # NoItem) =>
      normalizeKey(iter.item.key) = iter.yielded[Len(iter.yielded)].name


----------------------------------------------------------------------------
(* SpecPullSteps: Pull taken one iteration of its loop at a time, so that
   the caller's context can end between two iterations.  iter is the
   iterator Pull gets from List, ret the position of the call. *)

\* Pull up to the loop: the listing
PullStart(o) ==
    /\ ret.op = "none"
    /\ \E l \in {List(Ctx, o.Remote)} :
         /\ iter' = l.it
         /\ ret' = [op |-> "Pull", pc |-> IF l.err = Nil THEN "loop" ELSE "returned",
                    o |-> o, err |-> l.err, keys |-> <<>>, steps |-> <<>>,
                    late |-> FALSE]
    /\ UNCHANGED <<opts, files, done, streams, local, codec>>

\* what Pull does once OpenNext has returned false: iter.Err() and the
\* delete phase
PullEnd(it, loc, keys) ==
    IF it.cursorErr THEN [err |-> "problem iterating bucket", loc |-> loc]
    ELSE IF (opts.DeleteOnPull \/ opts.DeleteOnSync) /\ ~opts.DryRun
    THEN [err |-> Nil, loc |-> deleteOnPull(loc, keys)]
    ELSE [err |-> Nil, loc |-> loc]

\* one evaluation of the loop condition gridfs.OpenNext(iterimpl.iter, &f)
\* and, when it yields an object, the body of the loop for that object;
\* late records that the caller's context had ended when OpenNext was called
PullIterate(fault) ==
    /\ ret.op = "Pull" /\ ret.pc = "loop"
    /\ \E n \in {OpenNext(iter, fault.kind = "iter")} :
         /\ iter' = n.it
         /\ IF n.ok
            THEN \E one \in {PullOne(files, local, ret.o, n.f, fault)} :
                   /\ local' = one.loc
                   /\ ret' = [ret EXCEPT
                                !.pc = IF one.step.err = Nil THEN "loop" ELSE "returned",
                                !.err = one.step.err,
                                !.keys = IF one.key = NoKey THEN @ ELSE Append(@, one.key),
                                !.steps = Append(@, one.step),
                                !.late = Ctx \in done]
            ELSE \E e \in {PullEnd(n.it, local, ret.keys)} :
                   /\ local' = e.loc
                   /\ ret' = [ret EXCEPT !.pc = "returned", !.err = e.err,
                                         !.late = FALSE]
    /\ UNCHANGED <<opts, files, done, streams, codec>>

\* the faults of one iteration: on the object the cursor is about to yield
StepFaults ==
    {NoFault} \cup
    (IF iter # NoIter /\ iter.cursor # <<>>
     THEN [kind : {"iter", "checksum", "download"}, on : {Head(iter.cursor).name}]
     ELSE {})

\* the caller's context ends, before Pull is called or while it runs
CancelPull ==
    /\ Ctx \notin done
    /\ done' = done \cup {Ctx}
    /\ UNCHANGED <<opts, files, iter, streams, local, ret, codec>>

NextPullSteps ==
    \/ CancelPull
    \/ \E o \in SyncOptions : PullStart(o)
    \/ \E fault \in StepFaults : PullIterate(fault)

SpecPullSteps == InitSync /\ [][NextPullSteps]_vars

\* C24: once the caller's context has ended, the loop of Pull takes no
\* further object from the listing and starts no further download
C24_PullStopsOnCancel ==
    [][ (ret.op = "Pull" /\ ret.pc = "loop" /\ Ctx \in done) =>
          /\ iter'.cursor = iter.cursor
          /\ Len(ret'.steps) = Len(ret.steps)
          /\ local' = local
      ]_vars

====
